---- MODULE Spec2Model ----
(***************************************************************************)
(* Verification model of pydymax: dymax/convert.py (the conversion         *)
(* pipeline and its memo cache) and server/server.py (the RPC server).     *)
(*                                                                         *)
(* Floating point values are modelled by their class and, when finite, by  *)
(* an integer: [k |-> "fin", v |-> n], NaN, +Inf, -Inf.  Comparisons       *)
(* follow IEEE-754 as Python applies them: every comparison with NaN is    *)
(* false.                                                                  *)
(*                                                                         *)
(* dymax/constants.py (vertices, vert_indices, XYZcenters, the placement   *)
(* tables and the scalar constants) is not among the sources.  What the    *)
(* code reads from it is therefore an input of the model: the distances    *)
(* of a point to the 20 face centers and to the 3 vertices of the chosen   *)
(* face, and the point rotated into the template triangle.  The placement  *)
(* table is given stand-in integer entries.                                *)
(***************************************************************************)
EXTENDS Integers, Sequences, FiniteSets, TLC

VARIABLES
    ft_in,      \* fullerTriangle: the argument (class, center and vertex distances)
    ft_out,     \* fullerTriangle: what the call produced
    dp_in,      \* dymax_point: the arguments (tri, lcd, the point in the template frame)
    dp_out,     \* dymax_point: what the call produced
    geo,        \* the geometry constants as seen from each point of the sphere
    cache,      \* the dict `cache` of cached(lonlat2dymax): args -> result
    ncomp,      \* how often the wrapped function was invoked, per call form
    calls,      \* number of calls made so far
    last,       \* the latest call of the wrapper and its outcome
    f2_in,      \* face2dymax: the arguments
    f2_out,     \* face2dymax: what the call produced
    tpc,        \* concurrent callers: where each caller is in wrapper
    tform,      \* concurrent callers: the arguments of each caller
    tres,       \* concurrent callers: the local `result`, then the outcome of the call
    lpc,        \* the process: loading the module, loaded, server bound, server running
    li,         \* module load: the loop variable i of line 315
    dymax_centers,  \* the module global dymax_centers
    nwritten    \* how often each row of dymax_centers was assigned

vars == <<ft_in, ft_out, dp_in, dp_out, geo, cache, ncomp, calls, last, f2_in, f2_out,
          tpc, tform, tres, lpc, li, dymax_centers, nwritten>>

(***************************************************************************)
(* Bounds of the model.                                                    *)
(***************************************************************************)
MaxDist == 2        \* finite distances are 0..MaxDist
MaxCalls == 2       \* calls of the cached function in one run
NThreads == 2       \* concurrent callers of the cached function

(***************************************************************************)
(* Floating point values.                                                  *)
(***************************************************************************)
Fin(n) == [k |-> "fin", v |-> n]
NaN  == [k |-> "nan", v |-> 0]
PInf == [k |-> "inf", v |-> 1]
NInf == [k |-> "inf", v |-> -1]

IsNaN(a) == a.k = "nan"
IsFin(a) == a.k = "fin"

\* a < b on floats
Lt(a, b) ==
    IF IsNaN(a) \/ IsNaN(b) THEN FALSE
    ELSE IF IsFin(a) /\ IsFin(b) THEN a.v < b.v
    ELSE IF IsFin(a) THEN b.v = 1
    ELSE IF IsFin(b) THEN a.v = -1
    ELSE a.v < b.v

\* a == b on floats
Eq(a, b) == IF IsNaN(a) \/ IsNaN(b) THEN FALSE ELSE a = b

\* a <= b on floats
Le(a, b) == Lt(a, b) \/ Eq(a, b)

\* a + b on floats
Add(a, b) ==
    IF IsNaN(a) \/ IsNaN(b) THEN NaN
    ELSE IF IsFin(a) /\ IsFin(b) THEN Fin(a.v + b.v)
    ELSE IF IsFin(a) THEN b
    ELSE IF IsFin(b) THEN a
    ELSE IF a.v = b.v THEN a ELSE NaN

Neg(a) == IF IsFin(a) THEN Fin(-a.v) ELSE IF IsNaN(a) THEN NaN ELSE [k |-> "inf", v |-> -a.v]

\* a - b on floats
Sub(a, b) == Add(a, Neg(b))

Sign(n) == IF n > 0 THEN 1 ELSE IF n < 0 THEN -1 ELSE 0

\* a * b on floats
Mul(a, b) ==
    IF IsNaN(a) \/ IsNaN(b) THEN NaN
    ELSE IF IsFin(a) /\ IsFin(b) THEN Fin(a.v * b.v)
    ELSE IF Sign(a.v) * Sign(b.v) = 0 THEN NaN
    ELSE [k |-> "inf", v |-> Sign(a.v) * Sign(b.v)]

(***************************************************************************)
(* constants.facecount                                                     *)
(***************************************************************************)
facecount == 20

Faces == 0 .. (facecount - 1)

(***************************************************************************)
(* Outcome of a call: a value, or the exception that ended it.             *)
(***************************************************************************)
NoExc == "none"

(***************************************************************************)
(* fullerTriangle, lines 170-180: the scan for the closest face center.    *)
(* cd[idx] is magnitude(constants.XYZcenters[idx] - XYZ).                  *)
(***************************************************************************)
RECURSIVE FaceScanLe(_, _, _, _)
FaceScanLe(idx, h_tri, h_dist1, cd) ==
    IF idx = facecount THEN h_tri
    ELSE IF Le(cd[idx], h_dist1)
         THEN FaceScanLe(idx + 1, idx, cd[idx], cd)
         ELSE FaceScanLe(idx + 1, h_tri, h_dist1, cd)

RECURSIVE FaceScan(_, _, _, _)
FaceScan(idx, h_tri, h_dist1, cd) ==
    IF idx = facecount THEN h_tri
    ELSE IF Lt(cd[idx], h_dist1)
         THEN FaceScan(idx + 1, idx, cd[idx], cd)
         ELSE FaceScan(idx + 1, h_tri, h_dist1, cd)

(***************************************************************************)
(* fullerTriangle, lines 188-193: the if/elif chain without an else.       *)
(* The result is -1 when no branch assigns h_lcd (the name stays unbound). *)
(***************************************************************************)
Unbound == -1

LcdChainReordered(d1, d2, d3) ==
    IF      Le(d2, d1) /\ Le(d1, d3) THEN 1
    ELSE IF Le(d1, d2) /\ Le(d2, d3) THEN 0
    ELSE IF Le(d1, d3) /\ Le(d3, d2) THEN 5
    ELSE IF Le(d2, d3) /\ Le(d3, d1) THEN 2
    ELSE IF Le(d3, d1) /\ Le(d1, d2) THEN 4
    ELSE IF Le(d3, d2) /\ Le(d2, d1) THEN 3
    ELSE Unbound

LcdChain(d1, d2, d3) ==
    IF      Le(d1, d2) /\ Le(d2, d3) THEN 0
    ELSE IF Le(d1, d3) /\ Le(d3, d2) THEN 5
    ELSE IF Le(d2, d1) /\ Le(d1, d3) THEN 1
    ELSE IF Le(d2, d3) /\ Le(d3, d1) THEN 2
    ELSE IF Le(d3, d1) /\ Le(d1, d2) THEN 4
    ELSE IF Le(d3, d2) /\ Le(d2, d1) THEN 3
    ELSE Unbound

(***************************************************************************)
(* fullerTriangle(XYZ).  cd: the distances to the 20 face centers; vd: the *)
(* distances to the vertices v1, v2, v3 of face h_tri (numpy reads row -1  *)
(* as the last row, so the lookup succeeds when no face was chosen).       *)
(* `return h_tri, h_lcd` raises UnboundLocalError when h_lcd is unbound.   *)
(***************************************************************************)
fullerTriangle(cd, vd) ==
    LET h_tri == FaceScan(0, -1, PInf, cd)
        h_lcd == LcdChain(vd[1], vd[2], vd[3])
    IN  IF h_lcd = Unbound
        THEN [exc |-> "UnboundLocalError", tri |-> h_tri, lcd |-> Unbound]
        ELSE [exc |-> NoExc, tri |-> h_tri, lcd |-> h_lcd]

(***************************************************************************)
(* The arguments fullerTriangle is applied to.  A point with finite        *)
(* coordinates has finite distances, or +Inf where the dot product         *)
(* overflows; a coordinate that is infinite makes every distance +Inf; a   *)
(* NaN coordinate makes every distance NaN.                                *)
(***************************************************************************)
FinDist == { Fin(n) : n \in 0 .. MaxDist }

DistValues == FinDist \cup {PInf}

\* distance vectors with two distinguished faces a, b
CenterDists ==
    { [i \in Faces |-> IF i = a THEN da ELSE IF i = b THEN db ELSE dc] :
        a \in Faces, b \in Faces, da \in DistValues, db \in DistValues, dc \in DistValues }

AllDist(d) == [i \in Faces |-> d]

\* vertex distances that rank the vertices in each of the six orders
VertexSamples ==
    { <<Fin(0), Fin(0), Fin(0)>>, <<Fin(0), Fin(1), Fin(2)>>, <<Fin(2), Fin(1), Fin(0)>> }

\* center distances whose minimum is at face 0, at face 8, at faces 15 and 19
CenterSamples ==
    { AllDist(Fin(1)),
      [i \in Faces |-> IF i = 8 THEN Fin(0) ELSE Fin(1)],
      [i \in Faces |-> IF i \in {15, 19} THEN Fin(0) ELSE Fin(2)] }

\* every pattern of center distances, and every triple of vertex distances
LocateInputs ==
    { [cls |-> "fin", cd |-> c, vd |-> v] : c \in CenterDists, v \in VertexSamples }
    \cup { [cls |-> "fin", cd |-> c, vd |-> <<d1, d2, d3>>] :
             c \in CenterSamples, d1 \in DistValues, d2 \in DistValues, d3 \in DistValues }
    \cup { [cls |-> "nan", cd |-> AllDist(NaN), vd |-> <<NaN, NaN, NaN>>] }

Idle == [exc |-> "idle", tri |-> -1, lcd |-> Unbound]

(***************************************************************************)
(* math.radians.  Finite angles of the model are multiples of 90 degrees   *)
(* and a radian value is held in units of pi/2.                            *)
(***************************************************************************)
radians(a) == IF IsFin(a) THEN Fin(a.v \div 90) ELSE a

(***************************************************************************)
(* math.cos and math.sin of a finite or NaN angle (in units of pi/2).      *)
(* On an infinite argument both raise ValueError: callers test IsInf.      *)
(***************************************************************************)
IsInf(a) == a.k = "inf"
MathCos(a) == IF IsNaN(a) THEN NaN ELSE Fin(<<1, 0, -1, 0>>[(a.v % 4) + 1])
MathSin(a) == IF IsNaN(a) THEN NaN ELSE Fin(<<0, 1, 0, -1>>[(a.v % 4) + 1])

(***************************************************************************)
(* rotate2d(angle, pointx, pointy), lines 265-280: right hand rotation.    *)
(* Returns <<pointx, pointy>>.                                             *)
(***************************************************************************)
rotate2d(angle, pointx, pointy) ==
    LET ha == radians(Fin(angle))
        hx == pointx
        hy == pointy
    IN  << Sub(Mul(hx, MathCos(ha)), Mul(hy, MathSin(ha))),
           Add(Mul(hx, MathSin(ha)), Mul(hy, MathCos(ha))) >>

(***************************************************************************)
(* The placement tables of constants.py, <<xtranslate, ytranslate,         *)
(* rotation>>: one entry per face and the two special entries of faces 8   *)
(* and 15.  Stand-in values, pairwise distinct, rotations multiples of 90. *)
(***************************************************************************)
dymax_translate == [t \in Faces |-> <<t + 1, 2 * t, 90 * (t % 4)>>]
dymax_translate08_special == <<30, 31, 90>>
dymax_translate15_special == <<40, 41, 180>>

\* numpy indexing of a table of facecount rows: a negative index counts from the end
Row(tri) == IF tri < 0 THEN tri + facecount ELSE tri

(***************************************************************************)
(* dymax_point, lines 253-258: which placement entry is used.              *)
(***************************************************************************)
PlacementLe(tri, lcd) ==
    IF      tri = 8  /\ lcd <= 4 THEN dymax_translate08_special
    ELSE IF tri = 15 /\ lcd <= 3 THEN dymax_translate15_special
    ELSE dymax_translate[Row(tri)]

Placement(tri, lcd) ==
    IF      tri = 8  /\ lcd < 4 THEN dymax_translate08_special
    ELSE IF tri = 15 /\ lcd < 3 THEN dymax_translate15_special
    ELSE dymax_translate[Row(tri)]

(***************************************************************************)
(* dymax_point, lines 260-262: rotate, then translate.                     *)
(***************************************************************************)
Place(pl, pointx, pointy) ==
    LET r == rotate2d(pl[3], pointx, pointy)
    IN  << Add(r[1], Fin(pl[1])), Add(r[2], Fin(pl[2])) >>

(***************************************************************************)
(* dymax_point, line 230: the radicand 1 - h0XYZ[0]**2 - h0XYZ[1]**2 of    *)
(* the point rotated into the template frame.  Coordinates are in fifths.  *)
(***************************************************************************)
Radicand(x, y) == Sub(Sub(Fin(5 * 5), Mul(x, x)), Mul(y, y))

(***************************************************************************)
(* dymax_point(tri, lcd, XYZ).  h0 is the point after the rotations of     *)
(* lines 206-227: x, y its first two coordinates, px, py the template      *)
(* plane point that lines 231-249 make of them when gz is a positive       *)
(* number.  math.sqrt raises ValueError on a negative radicand, the        *)
(* division by gz * sqrt(15) raises ZeroDivisionError when gz is zero,     *)
(* and a NaN radicand makes every later value NaN.                         *)
(***************************************************************************)
NoPoint == <<NaN, NaN>>

dymax_point(tri, lcd, h0) ==
    LET rad == Radicand(h0.x, h0.y)
        pl  == Placement(tri, lcd)
    IN  IF Lt(rad, Fin(0))
        THEN [exc |-> "ValueError", pt |-> NoPoint]
        ELSE IF Eq(rad, Fin(0))
        THEN [exc |-> "ZeroDivisionError", pt |-> NoPoint]
        ELSE IF IsNaN(rad)
        THEN [exc |-> NoExc, pt |-> Place(pl, NaN, NaN)]
        ELSE [exc |-> NoExc, pt |-> Place(pl, h0.px, h0.py)]

(***************************************************************************)
(* Points in the template frame: inside the triangle, on the circle where  *)
(* gz = 0, outside the unit circle, and with NaN coordinates.              *)
(***************************************************************************)
H0Inside == { [x |-> Fin(0), y |-> Fin(0), px |-> Fin(0), py |-> Fin(0)],
              [x |-> Fin(1), y |-> Fin(2), px |-> Fin(1), py |-> Fin(3)] }
H0Circle == { [x |-> Fin(3), y |-> Fin(4), px |-> NaN, py |-> NaN] }
H0Outside == { [x |-> Fin(4), y |-> Fin(4), px |-> NaN, py |-> NaN] }
H0NaN == { [x |-> NaN, y |-> NaN, px |-> NaN, py |-> NaN] }
H0All == H0Inside \cup H0Circle \cup H0Outside \cup H0NaN

Lcds == 0 .. 5


(***************************************************************************)
(* lonlat2spherical(lng, lat), lines 127-132.  Returns <<theta, phi>>.     *)
(***************************************************************************)
lonlat2spherical(lng, lat) ==
    LET h_theta == Sub(Fin(90), lat)
        h_phi   == IF Lt(lng, Fin(0)) THEN Add(lng, Fin(360)) ELSE lng
    IN  << radians(h_theta), radians(h_phi) >>

(***************************************************************************)
(* spherical2cartesian(theta, phi), lines 143-146.  math.sin and math.cos  *)
(* raise ValueError on an infinite angle.                                  *)
(***************************************************************************)
NoXYZ == <<NaN, NaN, NaN>>

spherical2cartesian(theta, phi) ==
    IF IsInf(theta) \/ IsInf(phi)
    THEN [exc |-> "ValueError", xyz |-> NoXYZ]
    ELSE [exc |-> NoExc,
          xyz |-> << Mul(MathSin(theta), MathCos(phi)),
                     Mul(MathSin(theta), MathSin(phi)),
                     MathCos(theta) >>]

(***************************************************************************)
(* What the geometry constants make of a point XYZ: its distances to the   *)
(* face centers (line 176-177), to the vertices of the chosen face (lines  *)
(* 183-186) and its position in the template frame (lines 206-227).  A NaN *)
(* coordinate makes all of them NaN; for a finite point they are given by  *)
(* the constants, g.                                                       *)
(***************************************************************************)
NaNGeometry ==
    [cd |-> AllDist(NaN), vd |-> <<NaN, NaN, NaN>>, h0 |-> CHOOSE h \in H0NaN : TRUE]

PointGeometry(xyz, g) ==
    IF \E i \in 1 .. 3 : IsNaN(xyz[i]) THEN NaNGeometry ELSE g[xyz]

(***************************************************************************)
(* lonlat2dymax(lng, lat, getlcd), lines 35-60 (the undecorated function). *)
(***************************************************************************)
Raised(e) == [exc |-> e, val |-> <<>>]

lonlat2dymax(lng, lat, getlcd, g) ==
    LET sp == lonlat2spherical(lng, lat)
        c  == spherical2cartesian(sp[1], sp[2])
    IN  IF c.exc # NoExc THEN Raised(c.exc)
        ELSE
        LET pg == PointGeometry(c.xyz, g)
            ft == fullerTriangle(pg.cd, pg.vd)
        IN  IF ft.exc # NoExc THEN Raised(ft.exc)
            ELSE
            LET dp == dymax_point(ft.tri, ft.lcd, pg.h0)
            IN  IF dp.exc # NoExc THEN Raised(dp.exc)
                ELSE IF getlcd
                     THEN [exc |-> NoExc, val |-> <<dp.pt[1], dp.pt[2], ft.lcd>>]
                     ELSE [exc |-> NoExc, val |-> <<dp.pt[1], dp.pt[2]>>]

(***************************************************************************)
(* A call form: the positional arguments and the keyword arguments (kw is  *)
(* the set of values given as getlcd=..., empty when it is not given).     *)
(* Python binds getlcd to the third positional argument, else to the       *)
(* keyword, else to the default False.                                     *)
(***************************************************************************)
BoundGetlcd(args, kw) ==
    IF Len(args) = 3 THEN args[3]
    ELSE IF kw # {} THEN CHOOSE b \in kw : TRUE
    ELSE FALSE

\* line 28: the wrapped function applied to the positional and keyword arguments
Invoke(args, kw, g) == lonlat2dymax(args[1], args[2], BoundGetlcd(args, kw), g)

(***************************************************************************)
(* cached.wrapper, lines 24-30, applied to the cache c.                    *)
(* Gives the cache after the call, the outcome, and whether the wrapped    *)
(* function was invoked.  An exception of the wrapped function leaves the  *)
(* wrapper before line 29.                                                 *)
(***************************************************************************)
Store(c, args, result) ==
    [k \in DOMAIN c \cup {args} |-> IF k = args THEN result ELSE c[k]]

wrapperStoresFailure(c, args, kw, g) ==
    IF args \in DOMAIN c
    THEN [cache |-> c, res |-> [exc |-> NoExc, val |-> c[args]], computed |-> FALSE]
    ELSE LET result == Invoke(args, kw, g)
         IN  [cache |-> Store(c, args, result.val), res |-> result, computed |-> TRUE]

wrapper(c, args, kw, g) ==
    IF args \in DOMAIN c
    THEN [cache |-> c, res |-> [exc |-> NoExc, val |-> c[args]], computed |-> FALSE]
    ELSE LET result == Invoke(args, kw, g)
         IN  IF result.exc # NoExc
             THEN [cache |-> c, res |-> result, computed |-> TRUE]
             ELSE [cache |-> Store(c, args, result.val), res |-> result, computed |-> TRUE]

(***************************************************************************)
(* Arguments of the calls: two finite points (one of negative longitude),  *)
(* a NaN longitude, a NaN latitude and an infinite longitude; getlcd       *)
(* omitted, positional or by keyword.                                      *)
(***************************************************************************)
Coords == { <<Fin(0), Fin(0)>>, <<Fin(-90), Fin(0)>>,
            <<NaN, Fin(0)>>, <<Fin(0), NaN>>, <<PInf, Fin(0)>> }

FiniteCoords == { p \in Coords : IsFin(p[1]) /\ IsFin(p[2]) }

Forms ==
    { [args |-> p, kw |-> {}] : p \in Coords }
    \cup { [args |-> p \o <<b>>, kw |-> {}] : p \in Coords, b \in BOOLEAN }
    \cup { [args |-> p, kw |-> {b}] : p \in Coords, b \in BOOLEAN }

\* the unit vectors of the finite points
FinitePoints ==
    { spherical2cartesian(lonlat2spherical(p[1], p[2])[1],
                          lonlat2spherical(p[1], p[2])[2]).xyz : p \in FiniteCoords }

(***************************************************************************)
(* The geometry of a finite point.  A point of the unit sphere is closest  *)
(* to some face center and, rotated into that face's template frame, lies  *)
(* inside the unit circle; GeoDegenerate adds the points on the circle     *)
(* gz = 0 and beyond it.                                                   *)
(***************************************************************************)
Nearest(f) == [i \in Faces |-> IF i = f THEN Fin(0) ELSE Fin(1)]

GeoRegular ==
    { [cd |-> Nearest(8), vd |-> <<Fin(0), Fin(1), Fin(1)>>,
       h0 |-> [x |-> Fin(1), y |-> Fin(2), px |-> Fin(1), py |-> Fin(3)]],
      [cd |-> Nearest(3), vd |-> <<Fin(1), Fin(1), Fin(0)>>,
       h0 |-> [x |-> Fin(0), y |-> Fin(0), px |-> Fin(0), py |-> Fin(0)]] }

GeoDegenerate ==
    { [cd |-> Nearest(15), vd |-> <<Fin(1), Fin(0), Fin(1)>>, h0 |-> h] :
        h \in H0Circle \cup H0Outside }

Injective(f) == \A a \in DOMAIN f : \A b \in DOMAIN f : f[a] = f[b] => a = b

(***************************************************************************)
(* face2dymax(faceIdx, push, atomic), lines 96-116.                        *)
(*                                                                         *)
(* The point of step jdx is a vertex of the face (line 99, line 110) or    *)
(* the midpoint of the two other vertices (lines 101-103), blended with    *)
(* the face center (line 104, line 110).  A NaN push makes the blend NaN.  *)
(* A point blended with a push in [0, 1] lies in the face: faceIdx is its  *)
(* closest center, the vertex it comes from its closest vertex (both       *)
(* other vertices for a midpoint); hs[jdx + 1] is its place in the         *)
(* template frame.                                                         *)
(***************************************************************************)
NPoints(atomic) == IF atomic THEN 6 ELSE 3

VertexRank(jdx, atomic) ==
    IF atomic /\ jdx % 2 = 1
    THEN [i \in 1 .. 3 |-> IF i - 1 \in {((jdx \div 2) + 1) % 3, ((jdx \div 2) + 2) % 3}
                           THEN Fin(0) ELSE Fin(1)]
    ELSE LET v == IF atomic THEN jdx \div 2 ELSE jdx
         IN  [i \in 1 .. 3 |-> IF i - 1 = v THEN Fin(0) ELSE Fin(1)]

BlendGeometry(faceIdx, push, atomic, hs, jdx) ==
    IF IsNaN(push) THEN NaNGeometry
    ELSE [cd |-> Nearest(faceIdx), vd |-> VertexRank(jdx, atomic), h0 |-> hs[jdx + 1]]

\* line 115: points[-1] = points[0]
CloseRing(points) == [points EXCEPT ![Len(points)] = points[1]]

\* the loops of lines 98-106 and 109-112, from step jdx on
RECURSIVE FaceLoop(_, _, _, _, _, _)
FaceLoop(jdx, points, faceIdx, push, atomic, hs) ==
    IF jdx = NPoints(atomic) THEN [exc |-> NoExc, points |-> CloseRing(points)]
    ELSE
    LET pg == BlendGeometry(faceIdx, push, atomic, hs, jdx)
        ft == fullerTriangle(pg.cd, pg.vd)
    IN  IF ft.exc # NoExc THEN [exc |-> ft.exc, points |-> <<>>]
        ELSE
        LET dp == dymax_point(ft.tri, ft.lcd, pg.h0)
        IN  IF dp.exc # NoExc THEN [exc |-> dp.exc, points |-> <<>>]
            ELSE FaceLoop(jdx + 1, [points EXCEPT ![jdx + 1] = dp.pt],
                          faceIdx, push, atomic, hs)

\* np.zeros((n + 1, 2))
Zeros(n) == [i \in 1 .. n |-> <<Fin(0), Fin(0)>>]

face2dymax(faceIdx, push, atomic, hs) ==
    FaceLoop(0, Zeros(NPoints(atomic) + 1), faceIdx, push, atomic, hs)

\* push: the ends of [0, 1] and NaN
Pushes == { Fin(0), Fin(1), NaN }

FaceInputs ==
    { [faceIdx |-> f, push |-> p, atomic |-> FALSE, hs |-> h] :
        f \in Faces, p \in Pushes, h \in [1 .. 3 -> H0Inside] }
    \cup { [faceIdx |-> f, push |-> p, atomic |-> TRUE, hs |-> h] :
        f \in {0, 8, 15}, p \in Pushes, h \in [1 .. 6 -> H0Inside] }

(***************************************************************************)
(* The variables of the parts a specification does not use.                *)
(***************************************************************************)
NoLocateIn == [cls |-> "nan", cd |-> AllDist(NaN), vd |-> <<NaN, NaN, NaN>>]
PointIdle == [exc |-> "idle", pt |-> NoPoint]
NoPointIn == [tri |-> 0, lcd |-> 0, h0 |-> CHOOSE h \in H0NaN : TRUE]
NoForm == [args |-> <<>>, kw |-> {}]
NoCall == [form |-> NoForm, exc |-> "idle", val |-> <<>>, computed |-> FALSE]
FaceIdle == [exc |-> "idle", points |-> <<>>]

LocateUnused == ft_in = NoLocateIn /\ ft_out = Idle
PointUnused == dp_in = NoPointIn /\ dp_out = PointIdle
CacheUnused ==
    /\ geo = <<>>
    /\ cache = <<>>
    /\ ncomp = <<>>
    /\ calls = 0
    /\ last = NoCall
FaceUnused == f2_in = <<>> /\ f2_out = FaceIdle
ConcUnused == tpc = <<>> /\ tform = <<>> /\ tres = <<>>
LoadUnused == lpc = "unused" /\ li = 0 /\ dymax_centers = <<>> /\ nwritten = <<>>

cacheVars == <<geo, cache, ncomp, calls, last>>
locateVars == <<ft_in, ft_out>>
pointVars == <<dp_in, dp_out>>
faceVars == <<f2_in, f2_out>>
concVars == <<tpc, tform, tres>>
loadVars == <<lpc, li, dymax_centers, nwritten>>

(***************************************************************************)
(* Specification of fullerTriangle applied to one argument.                *)
(***************************************************************************)
InitLocate ==
    /\ ft_in \in LocateInputs
    /\ ft_out = Idle
    /\ PointUnused /\ CacheUnused /\ FaceUnused /\ ConcUnused /\ LoadUnused

FullerTriangleCall ==
    /\ ft_out = Idle
    /\ ft_out' = fullerTriangle(ft_in.cd, ft_in.vd)
    /\ UNCHANGED <<ft_in, pointVars, cacheVars, faceVars, concVars, loadVars>>

NextLocate == FullerTriangleCall

SpecLocate == InitLocate /\ [][NextLocate]_vars

(***************************************************************************)
(* Specification of dymax_point applied to one argument.                   *)
(***************************************************************************)
InitPoint ==
    /\ dp_in \in [tri : Faces, lcd : Lcds, h0 : H0All]
    /\ dp_out = PointIdle
    /\ LocateUnused /\ CacheUnused /\ FaceUnused /\ ConcUnused /\ LoadUnused

DymaxPointCall ==
    /\ dp_out = PointIdle
    /\ dp_out' = dymax_point(dp_in.tri, dp_in.lcd, dp_in.h0)
    /\ UNCHANGED <<locateVars, dp_in, cacheVars, faceVars, concVars, loadVars>>

NextPoint == DymaxPointCall

SpecPoint == InitPoint /\ [][NextPoint]_vars

(***************************************************************************)
(* Specification of face2dymax applied to one argument.                    *)
(***************************************************************************)
InitFace ==
    /\ f2_in \in FaceInputs
    /\ f2_out = FaceIdle
    /\ LocateUnused /\ PointUnused /\ CacheUnused /\ ConcUnused /\ LoadUnused

Face2DymaxCall ==
    /\ f2_out = FaceIdle
    /\ f2_out' = face2dymax(f2_in.faceIdx, f2_in.push, f2_in.atomic, f2_in.hs)
    /\ UNCHANGED <<f2_in, locateVars, pointVars, cacheVars, concVars, loadVars>>

NextFace == Face2DymaxCall

SpecFace == InitFace /\ [][NextFace]_vars

(***************************************************************************)
(* Specification of a sequential series of calls of the cached             *)
(* lonlat2dymax.  cached() starts with cache = {} (line 22).               *)
(***************************************************************************)
RegularOracles == { g \in [FinitePoints -> GeoRegular] : Injective(g) }

InitCacheWith(oracles) ==
    /\ geo \in oracles
    /\ cache = <<>>
    /\ ncomp = [f \in Forms |-> 0]
    /\ calls = 0
    /\ last = NoCall
    /\ LocateUnused /\ PointUnused /\ FaceUnused /\ ConcUnused

\* one call of the wrapper, lines 24-30, run to its end
DoCall ==
    /\ calls < MaxCalls
    /\ \E f \in Forms :
          \E w \in {wrapper(cache, f.args, f.kw, geo)} :
              /\ cache' = w.cache
              /\ last' = [form |-> f, exc |-> w.res.exc, val |-> w.res.val,
                          computed |-> w.computed]
              /\ ncomp' = [ncomp EXCEPT ![f] = @ + (IF w.computed THEN 1 ELSE 0)]
    /\ calls' = calls + 1
    /\ UNCHANGED <<geo, locateVars, pointVars, faceVars, concVars>>

CachedCall == DoCall /\ UNCHANGED loadVars

NextCache == CachedCall

\* the constants place every point inside a template triangle
InitCache == InitCacheWith(RegularOracles) /\ LoadUnused
SpecCache == InitCache /\ [][NextCache]_vars

\* the constants may also place a point on or beyond the circle gz = 0
InitCacheDegenerate ==
    /\ InitCacheWith({ g \in [FinitePoints -> GeoRegular \cup GeoDegenerate] :
                      /\ Injective(g)
                      /\ g[<<Fin(1), Fin(0), Fin(0)>>] \in GeoDegenerate
                      /\ g[<<Fin(0), Fin(-1), Fin(0)>>] \in GeoRegular })
    /\ LoadUnused
SpecCacheDegenerate == InitCacheDegenerate /\ [][NextCache]_vars

(***************************************************************************)
(* Specification of concurrent callers of the cached lonlat2dymax, each    *)
(* making one call: the membership test with the read of a hit (lines      *)
(* 25-26), the computation (line 28) and the insertion (lines 29-30) are   *)
(* separate steps.                                                         *)
(***************************************************************************)
Threads == 1 .. NThreads

NoResult == [exc |-> "idle", val |-> <<>>]

InitConc ==
    /\ geo \in RegularOracles
    /\ cache = <<>>
    /\ ncomp = <<>>
    /\ calls = 0
    /\ last = NoCall
    /\ tpc = [t \in Threads |-> "idle"]
    /\ tform = [t \in Threads |-> NoForm]
    /\ tres = [t \in Threads |-> NoResult]
    /\ LocateUnused /\ PointUnused /\ FaceUnused /\ LoadUnused

\* lines 25-26
Enter(t) ==
    /\ tpc[t] = "idle"
    /\ \E f \in Forms :
          /\ tform' = [tform EXCEPT ![t] = f]
          /\ IF f.args \in DOMAIN cache
             THEN /\ tres' = [tres EXCEPT ![t] = [exc |-> NoExc, val |-> cache[f.args]]]
                  /\ tpc' = [tpc EXCEPT ![t] = "done"]
             ELSE /\ tpc' = [tpc EXCEPT ![t] = "compute"]
                  /\ UNCHANGED tres
    /\ UNCHANGED <<cache, geo, ncomp, calls, last, locateVars, pointVars, faceVars, loadVars>>

\* line 28
Compute(t) ==
    /\ tpc[t] = "compute"
    /\ \E result \in {Invoke(tform[t].args, tform[t].kw, geo)} :
          /\ tres' = [tres EXCEPT ![t] = result]
          /\ tpc' = [tpc EXCEPT ![t] = IF result.exc # NoExc THEN "done" ELSE "insert"]
    /\ UNCHANGED <<tform, cache, geo, ncomp, calls, last, locateVars, pointVars, faceVars,
                   loadVars>>

\* lines 29-30
Insert(t) ==
    /\ tpc[t] = "insert"
    /\ cache' = Store(cache, tform[t].args, tres[t].val)
    /\ tpc' = [tpc EXCEPT ![t] = "done"]
    /\ UNCHANGED <<tform, tres, geo, ncomp, calls, last, locateVars, pointVars, faceVars,
                   loadVars>>

NextConc == \E t \in Threads : Enter(t) \/ Compute(t) \/ Insert(t)

SpecConc == InitConc /\ [][NextConc]_vars

(***************************************************************************)
(* Specification of a process that imports dymax and then serves: the      *)
(* module body of convert.py (lines 314-317 after the definitions), then   *)
(* either local calls or server.py lines 8-10 and the requests the server  *)
(* dispatches to lonlat2dymax.                                             *)
(***************************************************************************)
\* XYZcenters[i]: at distance 0 from its own center, equidistant from the three
\* vertices of its face, and rotated by lines 213-227 onto the pole of the template
CenterGeometry(i) ==
    [cd |-> Nearest(i), vd |-> <<Fin(1), Fin(1), Fin(1)>>,
     h0 |-> [x |-> Fin(0), y |-> Fin(0), px |-> Fin(0), py |-> Fin(0)]]

InitLoad ==
    /\ InitCacheWith(RegularOracles)
    /\ lpc = "loading"
    /\ li = 0
    /\ dymax_centers = [i \in Faces |-> <<Fin(0), Fin(0)>>]
    /\ nwritten = [i \in Faces |-> 0]

\* range(constants.facecount) is exhausted
ImportDoneEarly == li >= facecount - 1

ImportDone == li = facecount

\* lines 316-317, one iteration
LoadCenter ==
    /\ lpc = "loading"
    /\ li < facecount
    /\ LET pg  == CenterGeometry(li)
           ft  == fullerTriangle(pg.cd, pg.vd)
           dp  == dymax_point(ft.tri, ft.lcd, pg.h0)
       IN  /\ ft.exc = NoExc /\ dp.exc = NoExc
           /\ dymax_centers' = [dymax_centers EXCEPT ![li] = dp.pt]
    /\ nwritten' = [nwritten EXCEPT ![li] = @ + 1]
    /\ li' = li + 1
    /\ UNCHANGED <<lpc, cacheVars, locateVars, pointVars, faceVars, concVars>>

\* the import statement returns (server.py line 2)
FinishImport ==
    /\ lpc = "loading"
    /\ ImportDone
    /\ lpc' = "loaded"
    /\ UNCHANGED <<li, dymax_centers, nwritten, cacheVars, locateVars, pointVars,
                   faceVars, concVars>>

\* server.py lines 8-9
ServerBind ==
    /\ lpc = "loaded"
    /\ lpc' = "bound"
    /\ UNCHANGED <<li, dymax_centers, nwritten, cacheVars, locateVars, pointVars,
                   faceVars, concVars>>

\* server.py line 10
ServerRun ==
    /\ lpc = "bound"
    /\ lpc' = "running"
    /\ UNCHANGED <<li, dymax_centers, nwritten, cacheVars, locateVars, pointVars,
                   faceVars, concVars>>

\* a request dispatched by the running server
Request == lpc = "running" /\ DoCall /\ UNCHANGED loadVars

\* a call by the importing program itself
LocalCall == lpc = "loaded" /\ DoCall /\ UNCHANGED loadVars

NextLoad == LoadCenter \/ FinishImport \/ ServerBind \/ ServerRun \/ Request \/ LocalCall

SpecLoad == InitLoad /\ [][NextLoad]_vars

(***************************************************************************)
(* C3: fullerTriangle returns as face index the index of the face center   *)
(* at minimum distance, the lowest such index when several centers are at  *)
(* that distance, and the index is in 0..19 whenever some distance is      *)
(* finite.                                                                 *)
(***************************************************************************)
C3_FaceIsFirstMinimum ==
    (ft_out.exc # "idle" /\ \E i \in Faces : IsFin(ft_in.cd[i])) =>
        /\ ft_out.tri \in Faces
        /\ \A j \in Faces : Le(ft_in.cd[ft_out.tri], ft_in.cd[j])
        /\ \A j \in Faces : j < ft_out.tri => Lt(ft_in.cd[ft_out.tri], ft_in.cd[j])

\* two faces tie at the minimum, neither is face 0, and the lower one is returned
C3_Witness ==
    /\ ft_out.exc = NoExc
    /\ ft_out.tri > 0
    /\ \E j \in Faces :
          /\ j > ft_out.tri
          /\ Eq(ft_in.cd[j], ft_in.cd[ft_out.tri])
          /\ \A i \in Faces \ {j, ft_out.tri} : Lt(ft_in.cd[j], ft_in.cd[i])

(***************************************************************************)
(* C4: for vertex distances from a total order (no NaN) the lcd index is   *)
(* that of the first matching row of the ranking table, a row always       *)
(* matches, the index is in 0..5, and three equal distances give 0.        *)
(***************************************************************************)
RankTable ==
    << <<1, 2, 3, 0>>, <<1, 3, 2, 5>>, <<2, 1, 3, 1>>,
       <<2, 3, 1, 2>>, <<3, 1, 2, 4>>, <<3, 2, 1, 3>> >>

RowMatches(r, vd) ==
    /\ Le(vd[RankTable[r][1]], vd[RankTable[r][2]])
    /\ Le(vd[RankTable[r][2]], vd[RankTable[r][3]])

C4_LcdIsFirstMatchingRow ==
    (ft_out.exc # "idle" /\ \A i \in 1 .. 3 : ~IsNaN(ft_in.vd[i])) =>
        /\ ft_out.exc = NoExc
        /\ ft_out.lcd \in 0 .. 5
        /\ \E r \in 1 .. 6 :
              /\ RowMatches(r, ft_in.vd)
              /\ \A q \in 1 .. (r - 1) : ~RowMatches(q, ft_in.vd)
              /\ ft_out.lcd = RankTable[r][4]
        /\ (Eq(ft_in.vd[1], ft_in.vd[2]) /\ Eq(ft_in.vd[2], ft_in.vd[3])) => ft_out.lcd = 0

\* d1 = d2 < d3: the rows of lcd 0 and lcd 1 both match and 0 is returned
C4_Witness ==
    /\ ft_out.exc = NoExc
    /\ Eq(ft_in.vd[1], ft_in.vd[2])
    /\ Lt(ft_in.vd[2], ft_in.vd[3])
    /\ ft_out.lcd = 0

(***************************************************************************)
(* C5: dymax_point uses the special placement of face 8 exactly when       *)
(* tri = 8 and lcd < 4, that of face 15 exactly when tri = 15 and lcd < 3, *)
(* the per-face entry otherwise, and applies it as a rotation followed by  *)
(* a translation.                                                          *)
(***************************************************************************)
C5_Expected(tri, lcd) ==
    CASE tri = 8 /\ lcd \in {0, 1, 2, 3} -> dymax_translate08_special
      [] tri = 15 /\ lcd \in {0, 1, 2}   -> dymax_translate15_special
      [] OTHER                           -> dymax_translate[tri]

C5_PlacementRule ==
    (dp_out.exc = NoExc /\ dp_in.h0 \in H0Inside) =>
        LET pl == C5_Expected(dp_in.tri, dp_in.lcd)
            r  == rotate2d(pl[3], dp_in.h0.px, dp_in.h0.py)
        IN  /\ dp_out.pt[1] = Add(r[1], Fin(pl[1]))
            /\ dp_out.pt[2] = Add(r[2], Fin(pl[2]))

\* face 8, lcd 3: the special entry <<30, 31, 90>> applied to the point (1, 3)
C5_Witness ==
    /\ dp_out.exc = NoExc
    /\ dp_in.tri = 8 /\ dp_in.lcd = 3
    /\ dp_in.h0.px = Fin(1) /\ dp_in.h0.py = Fin(3)
    /\ dp_out.pt = <<Fin(27), Fin(32)>>

(***************************************************************************)
(* C1: a call of the cached lonlat2dymax that returns gives the triple     *)
(* (x, y, lcd) when getlcd is true and the pair (x, y) when it is false or *)
(* omitted, however getlcd is passed and whatever was cached before.       *)
(***************************************************************************)
C1_ShapeFollowsGetlcd ==
    last.exc = NoExc =>
        Len(last.val) = (IF BoundGetlcd(last.form.args, last.form.kw) THEN 3 ELSE 2)

(***************************************************************************)
(* C2: in a sequential series of calls the wrapped function is invoked at  *)
(* most once for each distinct argument tuple.                             *)
(***************************************************************************)
C2_ComputedAtMostOnce == \A f \in Forms : ncomp[f] <= 1

(***************************************************************************)
(* C7: a call with a NaN longitude or latitude does not end in an error:   *)
(* it returns a value.                                                     *)
(***************************************************************************)
C7_NaNReturnsAValue ==
    (last.exc # "idle" /\ (IsNaN(last.form.args[1]) \/ IsNaN(last.form.args[2])))
        => last.exc = NoExc

(***************************************************************************)
(* C8: a call whose point has gz = 0 or a radicand that is not positive    *)
(* ends with a reported error or a NaN result, and leaves the memo cache   *)
(* and the geometry constants as they were.                                *)
(***************************************************************************)
DegenerateForm(f, g) ==
    LET sp == lonlat2spherical(f.args[1], f.args[2])
        c  == spherical2cartesian(sp[1], sp[2])
    IN  /\ c.exc = NoExc
        /\ \A i \in 1 .. 3 : IsFin(c.xyz[i])
        /\ Le(Radicand(g[c.xyz].h0.x, g[c.xyz].h0.y), Fin(0))

IsNaNResult(val) == Len(val) >= 2 /\ IsNaN(val[1]) /\ IsNaN(val[2])

C8_DegenerateFailsCleanly ==
    [][ (calls' = calls + 1 /\ DegenerateForm(last'.form, geo)) =>
            /\ \/ last'.exc \in {"ValueError", "ZeroDivisionError"}
               \/ (last'.exc = NoExc /\ IsNaNResult(last'.val))
            /\ cache' = cache
            /\ geo' = geo ]_vars

\* a call ended in ZeroDivisionError and the entry cached before it is still there
C8_Witness ==
    /\ last.exc = "ZeroDivisionError"
    /\ DegenerateForm(last.form, geo)
    /\ calls = 2
    /\ DOMAIN cache # {}

(***************************************************************************)
(* C6: face2dymax returns, for every face, every push and both values of   *)
(* atomic, a closed ring: 4 points (atomic false) or 7 points (atomic      *)
(* true), the last equal to the first.                                     *)
(***************************************************************************)
IsClosedRing(points, atomic) ==
    /\ Len(points) = (IF atomic THEN 7 ELSE 4)
    /\ points[Len(points)] = points[1]

C6_AlwaysClosedRing ==
    f2_out.exc # "idle" =>
        (f2_out.exc = NoExc /\ IsClosedRing(f2_out.points, f2_in.atomic))

\* what holds of the calls that return
C6_ReturnedRingIsClosed ==
    f2_out.exc = NoExc => IsClosedRing(f2_out.points, f2_in.atomic)

(***************************************************************************)
(* C9: all 20 rows of dymax_centers are computed, each exactly once, while *)
(* the module loads; no call or request is processed before that, and the  *)
(* rows are never assigned again afterwards.                               *)
(***************************************************************************)
AllCentersComputed == \A i \in Faces : nwritten[i] = 1

C9_InitBarrier ==
    /\ [](calls > 0 => AllCentersComputed)
    /\ [](lpc # "loading" => AllCentersComputed)
    /\ [](\A i \in Faces : nwritten[i] <= 1)
    /\ [][lpc # "loading" => (dymax_centers' = dymax_centers /\ nwritten' = nwritten)]_vars

\* the running server has answered a request, after all 20 centers were computed
C9_Witness ==
    /\ lpc = "running"
    /\ calls > 0
    /\ last.exc = NoExc
    /\ AllCentersComputed
    /\ dymax_centers[8] = <<Fin(30), Fin(31)>>

(***************************************************************************)
(* C10: with concurrent callers, an entry once inserted into the cache is  *)
(* never removed and never replaced by a different value.                  *)
(***************************************************************************)
C10_EntryNeverReplaced ==
    [][ \A k \in DOMAIN cache : k \in DOMAIN cache' /\ cache'[k] = cache[k] ]_vars

\* every finished call has the value of the wrapped function for its own arguments
C10_OwnValue ==
    \A t \in Threads :
        tpc[t] = "done" => tres[t] = Invoke(tform[t].args, tform[t].kw, geo)

====
